---------------------------- MODULE Spec2Model ----------------------------
(***************************************************************************)
(* A model of slideagent_mcp/utils/plot_buddy.py: the PlotBuddy class      *)
(* (theme resolution, style loading, chart decorations, branded/clean      *)
(* export).                                                                *)
(*                                                                         *)
(* Strings are sequences of one-character strings, and a path is the       *)
(* sequence of its slash-separated components (Python's p.split("/"): an   *)
(* absolute path starts with the empty component), so that the string and  *)
(* path operations of the code (os.path.join, os.path.basename,            *)
(* Path.resolve, Path.stem, str.replace, os.path.splitext, str.lower, the  *)
(* `in` substring test) are computed, not assumed.  The file system is the *)
(* set of absolute paths that exist.                                       *)
(* matplotlib's process-wide rcParams is a function from keys to values.   *)
(***************************************************************************)
EXTENDS Integers, Sequences, FiniteSets, TLC

VARIABLES
    fs,          \* the file system: the set of absolute paths that exist
    malformed,   \* the files of fs whose content the library cannot parse
    rcParams,    \* matplotlib's process-wide styling state
    buddies,     \* the PlotBuddy instances, in order of construction
    scopes,      \* the context managers handed out by get_style_context: one
                 \* not yet entered holds the style it will apply, one entered
                 \* holds the rcParams it will put back
    ret,         \* the outcome of the most recent call
    probed,      \* the theme directories from_theme probed in its last call
    lastOk,      \* per instance: style name of its last load that returned True
    ctorFs,      \* per instance: the logo files that existed at construction
    inEffect,    \* the style file the last successful load applied, if any
    fig,         \* the current figure: its axes and its figure-level texts
    written      \* the files the most recent call wrote with fig.savefig, in
                 \* order, each with the visibility savefig saw

vars == <<fs, malformed, rcParams, buddies, scopes, ret, probed, lastOk,
          ctorFs, inEffect, fig, written>>

(***************************************************************************)
(* Bounds of the model.                                                    *)
(***************************************************************************)
MaxBuddies == 2
MaxScopes  == 2

(***************************************************************************)
(* Python's None and optional values: None is the empty set, a value x is  *)
(* the singleton {x}.                                                      *)
(***************************************************************************)
None == {}
Some(x) == {x}
Get(o) == CHOOSE x \in o : TRUE

(***************************************************************************)
(* Strings.                                                                *)
(***************************************************************************)
Dot == "."

StartsWith(s, p) ==
    /\ Len(p) <= Len(s)
    /\ SubSeq(s, 1, Len(p)) = p

EndsWith(s, p) ==
    /\ Len(p) <= Len(s)
    /\ SubSeq(s, Len(s) - Len(p) + 1, Len(s)) = p

\* `p in s` for strings
Contains(s, p) ==
    \E i \in 1..(Len(s) - Len(p) + 1) : SubSeq(s, i, i + Len(p) - 1) = p

\* s.rfind(c) + 1: the position of the last c in s, 0 when there is none
LastIndexOf(s, c) ==
    LET hits == {i \in 1..Len(s) : s[i] = c}
    IN  IF hits = {} THEN 0 ELSE CHOOSE i \in hits : \A j \in hits : j <= i

\* s.replace(old, new): every non-overlapping occurrence, left to right
RECURSIVE Replace(_, _, _)
Replace(s, old, new) ==
    IF Len(s) < Len(old) \/ Len(old) = 0 THEN s
    ELSE IF SubSeq(s, 1, Len(old)) = old
         THEN new \o Replace(SubSeq(s, Len(old) + 1, Len(s)), old, new)
         ELSE <<Head(s)>> \o Replace(Tail(s), old, new)

(***************************************************************************)
(* Paths.  "/w/p" is <<"", "w", "p">>, "themes/x" is <<"themes", "x">>,    *)
(* the empty string is <<"">>, each component a string.                    *)
(***************************************************************************)
\* the path of a string that holds no slash
P(name) == <<name>>

EmptyPath == P(<<>>)

IsAbs(p) == Len(p) >= 2 /\ p[1] = <<>>

\* os.path.join(a, b) on POSIX
Join(a, b) ==
    IF IsAbs(b) THEN b
    ELSE IF a[Len(a)] = <<>> THEN SubSeq(a, 1, Len(a) - 1) \o b
    ELSE a \o b

\* os.path.basename(p) on POSIX: what follows the last slash
Basename(p) == p[Len(p)]

DotDot == <<Dot, Dot>>

\* fold the components onto a stack: empty ones and "." skipped, ".." popping
RECURSIVE Normalise(_, _)
Normalise(stack, comps) ==
    IF comps = <<>> THEN stack
    ELSE IF Head(comps) = DotDot
         THEN Normalise(IF stack = <<>> THEN stack
                        ELSE SubSeq(stack, 1, Len(stack) - 1), Tail(comps))
    ELSE IF Head(comps) \in {<<>>, <<Dot>>} THEN Normalise(stack, Tail(comps))
    ELSE Normalise(Append(stack, Head(comps)), Tail(comps))

\* the process's working directory, os.getcwd(): "/w/p"
Cwd == <<<<>>, <<"w">>, <<"p">>>>

\* Path.resolve(): the absolute, normalised form of a path
Resolve(p) ==
    LET abs   == IF IsAbs(p) THEN p ELSE Join(Cwd, p)
        stack == Normalise(<<>>, Tail(abs))
    IN  IF \A i \in 2..Len(abs) : abs[i] \notin {<<>>, <<Dot>>, DotDot} THEN abs
        ELSE IF stack = <<>> THEN <<<<>>, <<>>>> ELSE <<<<>>>> \o stack

\* os.path.exists(p), Path.exists()
Exists(p, files) == Resolve(p) \in files

\* Path.parent of an absolute path
Parent(p) == SubSeq(p, 1, Len(p) - 1)

\* Path.stem: the final component without its last suffix
Stem(name) ==
    LET i == LastIndexOf(name, Dot)
    IN  IF 1 < i /\ i < Len(name) THEN SubSeq(name, 1, i - 1) ELSE name

(***************************************************************************)
(* The names the code builds paths from.                                   *)
(***************************************************************************)
IconLogoSuffix == <<"_", "i", "c", "o", "n", "_", "l", "o", "g", "o", ".", "p", "n", "g">>
TextLogoSuffix == <<"_", "t", "e", "x", "t", "_", "l", "o", "g", "o", ".", "p", "n", "g">>
MplstyleExt == <<".", "m", "p", "l", "s", "t", "y", "l", "e">>
StyleSuffix == <<"_", "s", "t", "y", "l", "e">>
ThemeSuffix == <<"_", "t", "h", "e", "m", "e">>
CssExt == <<".", "c", "s", "s">>
AcmeCorp == <<"a", "c", "m", "e", "_", "c", "o", "r", "p">>
Themes == <<"t", "h", "e", "m", "e", "s">>
Theme == <<"t", "h", "e", "m", "e">>

\* Path("theme") and Path("../theme")
ThemeDir == P(Theme)
ParentThemeDir == <<DotDot, Theme>>
UserResources == <<"u", "s", "e", "r", "_", "r", "e", "s", "o", "u", "r", "c", "e", "s">>
SlideagentMcp == <<"s", "l", "i", "d", "e", "a", "g", "e", "n", "t", "_", "m", "c", "p">>
Resources == <<"r", "e", "s", "o", "u", "r", "c", "e", "s">>
Core == <<"c", "o", "r", "e">>

\* pathlib.Path(__file__).parent.parent.parent: the installation root, "/r"
BaseDir == <<<<>>, <<"r">>>>

(***************************************************************************)
(* matplotlib's styling state.  A style file sets some of the keys;        *)
(* plt.style.use updates rcParams with them and leaves the other keys.     *)
(***************************************************************************)
RcKeys == {"font", "grid"}
RcDefault == [k \in RcKeys |-> 0]

\* "/t/a": a theme directory
StyleDir == <<<<>>, <<"t">>, <<"a">>>>

\* what a well-formed style file sets: the style files of the model differ
\* from each other and from the defaults
StyleFileA == Join(StyleDir, P(<<"a">> \o StyleSuffix \o MplstyleExt))
StyleFileB == Join(StyleDir, P(<<"b">> \o StyleSuffix \o MplstyleExt))

StyleSettings(path) ==
    LET file == Resolve(path)
    IN  IF file = StyleFileA THEN [font |-> 1]
        ELSE IF file = StyleFileB THEN [font |-> 2, grid |-> 2]
        ELSE [grid |-> 3]

RcUpdate(rc, settings) ==
    [k \in RcKeys |-> IF k \in DOMAIN settings THEN settings[k] ELSE rc[k]]

\* plt.style.use(path): raises when the file cannot be read or parsed, and
\* then leaves rcParams alone; otherwise updates rcParams
StyleUse(path, files, bad, rc) ==
    LET file == Resolve(path)
    IN  IF file \notin files \/ file \in bad
        THEN [raised |-> TRUE, rc |-> rc]
        ELSE [raised |-> FALSE, rc |-> RcUpdate(rc, StyleSettings(file))]

(***************************************************************************)
(* PlotBuddy.__init__                                                      *)
(***************************************************************************)
Truthy(o) == o # None /\ Get(o) # EmptyPath

\* a constructor that stores the logo paths without testing for the files
PlotBuddyInit_LogosUnchecked(style_dir_path, files) ==
    LET dir        == IF Truthy(style_dir_path) THEN Get(style_dir_path) ELSE Cwd
        theme_name == Basename(dir)
    IN  [style_dir_path |-> dir,
         current_style  |-> None,
         icon_logo_path |-> Some(Join(dir, P(theme_name \o IconLogoSuffix))),
         text_logo_path |-> Some(Join(dir, P(theme_name \o TextLogoSuffix)))]

PlotBuddyInit(style_dir_path, files) ==
    LET dir        == IF Truthy(style_dir_path) THEN Get(style_dir_path) ELSE Cwd
        theme_name == Basename(dir)
        icon_logo  == Join(dir, P(theme_name \o IconLogoSuffix))
        text_logo  == Join(dir, P(theme_name \o TextLogoSuffix))
    IN  [style_dir_path |-> dir,
         current_style  |-> None,
         icon_logo_path |-> IF Exists(icon_logo, files) THEN Some(icon_logo) ELSE None,
         text_logo_path |-> IF Exists(text_logo, files) THEN Some(text_logo) ELSE None]

(***************************************************************************)
(* PlotBuddy.load_style_from_file: the instance, rcParams and the outcome  *)
(* after the call.                                                         *)
(***************************************************************************)
StylePath(self, style_name) ==
    Join(self.style_dir_path, P(style_name \o MplstyleExt))

\* a load that records the style name before it knows the style loaded
LoadStyleFromFile_RecordsFirst(self, style_name, files, bad, rc) ==
    LET style_path == StylePath(self, style_name)
        used       == StyleUse(style_path, files, bad, rc)
        named      == [self EXCEPT !.current_style = Some(style_name)]
    IN  IF ~Exists(style_path, files)
        THEN [self |-> self, rc |-> rc, raised |-> "none", value |-> FALSE]
        ELSE IF used.raised
        THEN [self |-> named, rc |-> used.rc, raised |-> "none", value |-> FALSE]
        ELSE [self |-> named, rc |-> used.rc, raised |-> "none", value |-> TRUE]

\* a load whose except clause re-raises
LoadStyleFromFile_Reraises(self, style_name, files, bad, rc) ==
    LET style_path == StylePath(self, style_name)
        used       == StyleUse(style_path, files, bad, rc)
    IN  IF ~Exists(style_path, files)
        THEN [self |-> self, rc |-> rc, raised |-> "none", value |-> FALSE]
        ELSE IF used.raised
        THEN [self |-> self, rc |-> used.rc, raised |-> "Exception", value |-> FALSE]
        ELSE [self |-> [self EXCEPT !.current_style = Some(style_name)],
              rc |-> used.rc, raised |-> "none", value |-> TRUE]

\* a load that keeps the style to itself: rcParams is left as it was
LoadStyleFromFile_PerContext(self, style_name, files, bad, rc) ==
    LET style_path == StylePath(self, style_name)
        used       == StyleUse(style_path, files, bad, rc)
    IN  IF ~Exists(style_path, files)
        THEN [self |-> self, rc |-> rc, raised |-> "none", value |-> FALSE]
        ELSE IF used.raised
        THEN [self |-> self, rc |-> rc, raised |-> "none", value |-> FALSE]
        ELSE [self |-> [self EXCEPT !.current_style = Some(style_name)],
              rc |-> rc, raised |-> "none", value |-> TRUE]

LoadStyleFromFile(self, style_name, files, bad, rc) ==
    LET style_path == StylePath(self, style_name)
        used       == StyleUse(style_path, files, bad, rc)
    IN  IF ~Exists(style_path, files)
        THEN [self |-> self, rc |-> rc, raised |-> "none", value |-> FALSE]
        ELSE IF used.raised
        THEN [self |-> self, rc |-> used.rc, raised |-> "none", value |-> FALSE]
        ELSE [self |-> [self EXCEPT !.current_style = Some(style_name)],
              rc |-> used.rc, raised |-> "none", value |-> TRUE]

(***************************************************************************)
(* PlotBuddy.get_style_context: the style the returned context manager     *)
(* will apply on entry (None stands for plt.style.context('default')), and *)
(* rcParams after the call.                                                *)
(***************************************************************************)
\* a get_style_context that calls plt.style.use where the code calls
\* plt.style.context
GetStyleContext_Permanent(self, style_name, files, bad, rc) ==
    LET style_path == StylePath(self, style_name)
    IN  IF ~Exists(style_path, files)
        THEN [style |-> None, rc |-> RcDefault, raised |-> "none"]
        ELSE [style |-> Some(style_path),
              rc |-> StyleUse(style_path, files, bad, rc).rc, raised |-> "none"]

GetStyleContext(self, style_name, files, bad, rc) ==
    LET style_path == StylePath(self, style_name)
    IN  IF ~Exists(style_path, files)
        THEN [style |-> None, rc |-> rc, raised |-> "none"]
        ELSE [style |-> Some(style_path), rc |-> rc, raised |-> "none"]

(***************************************************************************)
(* The context manager plt.style.context(style) returns: on entry it saves *)
(* rcParams and applies the style; when applying raises, and on exit, it   *)
(* puts the saved rcParams back.                                           *)
(***************************************************************************)
StyleContextEnter(style, files, bad, rc) ==
    LET used == StyleUse(Get(style), files, bad, rc)
    IN  IF style = None
        THEN [raised |-> "none", rc |-> RcDefault, saved |-> rc]
        ELSE IF used.raised
        THEN [raised |-> "OSError", rc |-> rc, saved |-> rc]
        ELSE [raised |-> "none", rc |-> used.rc, saved |-> rc]

StyleContextExit(saved, rc) == saved

(***************************************************************************)
(* PlotBuddy.from_theme                                                    *)
(***************************************************************************)
\* base_dir / "user_resources" / "themes"
UserRoot == Join(Join(BaseDir, P(UserResources)), P(Themes))

\* base_dir / "slideagent_mcp" / "resources" / "themes" / "core"
SystemRoot ==
    Join(Join(Join(Join(BaseDir, P(SlideagentMcp)), P(Resources)), P(Themes)),
         P(Core))

UserThemePath(theme_name) == Join(UserRoot, P(theme_name))

SystemThemePath(theme_name) == Join(SystemRoot, P(theme_name))

LegacyThemePath(theme_name) == Join(P(Themes), P(theme_name))

\* the directory from_theme settles on, and the directories it tested for
\* existence on the way, in order
\* a search that looks at the system themes before the user themes
ThemePath_SystemFirst(theme_name, themes_dir, files) ==
    LET user_theme_path   == UserThemePath(theme_name)
        system_theme_path == SystemThemePath(theme_name)
    IN  IF Truthy(themes_dir)
        THEN [path |-> Join(Get(themes_dir), P(theme_name)), probed |-> <<>>]
        ELSE IF Exists(system_theme_path, files)
        THEN [path |-> system_theme_path, probed |-> <<system_theme_path>>]
        ELSE IF Exists(user_theme_path, files)
        THEN [path |-> user_theme_path,
              probed |-> <<system_theme_path, user_theme_path>>]
        ELSE [path |-> LegacyThemePath(theme_name),
              probed |-> <<system_theme_path, user_theme_path>>]

ThemePath(theme_name, themes_dir, files) ==
    LET user_theme_path   == UserThemePath(theme_name)
        system_theme_path == SystemThemePath(theme_name)
    IN  IF Truthy(themes_dir)
        THEN [path |-> Join(Get(themes_dir), P(theme_name)), probed |-> <<>>]
        ELSE IF Exists(user_theme_path, files)
        THEN [path |-> user_theme_path, probed |-> <<user_theme_path>>]
        ELSE IF Exists(system_theme_path, files)
        THEN [path |-> system_theme_path,
              probed |-> <<user_theme_path, system_theme_path>>]
        ELSE [path |-> LegacyThemePath(theme_name),
              probed |-> <<user_theme_path, system_theme_path>>]

\* a from_theme that returns the instance without loading the style
FromTheme_NoLoad(theme_name, themes_dir, files, bad, rc) ==
    LET found == ThemePath(theme_name, themes_dir, files)
        buddy == PlotBuddyInit(Some(found.path), files)
    IN  [self |-> buddy, rc |-> rc, raised |-> "none", loaded |-> FALSE,
         probed |-> found.probed]

FromTheme(theme_name, themes_dir, files, bad, rc) ==
    LET found  == ThemePath(theme_name, themes_dir, files)
        buddy  == PlotBuddyInit(Some(found.path), files)
        loaded == LoadStyleFromFile(buddy, theme_name \o StyleSuffix, files, bad, rc)
    IN  [self |-> loaded.self, rc |-> loaded.rc, raised |-> loaded.raised,
         loaded |-> loaded.value, probed |-> found.probed]

(***************************************************************************)
(* PlotBuddy.from_project_config                                           *)
(***************************************************************************)
\* the theme folder: ./theme, or ../theme when ./theme does not exist;
\* None when neither exists
ProjectThemeDir(files) ==
    IF Exists(ThemeDir, files) THEN Some(ThemeDir)
    ELSE IF Exists(ParentThemeDir, files) THEN Some(ParentThemeDir)
    ELSE None

\* theme_dir.glob("*_theme.css"): the entries of the folder the pattern matches
CssMatches(theme_dir, files) ==
    {p \in files : /\ Parent(p) = Resolve(theme_dir)
                   /\ EndsWith(Basename(p), ThemeSuffix \o CssExt)}

\* css_file.stem.replace("_theme", "")
ThemeNameOf(css_file) == Replace(Stem(Basename(css_file)), ThemeSuffix, <<>>)

\* return cls.from_theme("acme_corp"): what from_theme returned, r
FellBack(r) ==
    [self |-> r.self, rc |-> r.rc, raised |-> r.raised,
     theme_name |-> AcmeCorp, fellBack |-> TRUE]

\* return buddy, after buddy.load_style_from_file(f"{theme_name}_style")
OnTheme(loaded, theme_name) ==
    [self |-> loaded.self, rc |-> loaded.rc, raised |-> loaded.raised,
     theme_name |-> theme_name, fellBack |-> FALSE]

\* css is the first file the glob yields (None when it yields nothing); the
\* order of a glob is the directory's, so the caller draws it from CssMatches
FromProjectConfig(css, files, bad, rc) ==
    LET theme_dir  == ProjectThemeDir(files)
        theme_name == IF css = None THEN <<>> ELSE ThemeNameOf(Get(css))
    IN  IF theme_dir = None
        THEN FellBack(FromTheme(AcmeCorp, None, files, bad, rc))
        ELSE IF theme_name = <<>>
        THEN FellBack(FromTheme(AcmeCorp, None, files, bad, rc))
        ELSE OnTheme(LoadStyleFromFile(
                         PlotBuddyInit(Some(Resolve(Get(theme_dir))), files),
                         theme_name \o StyleSuffix, files, bad, rc),
                     theme_name)

(***************************************************************************)
(* Figures.  A figure holds its axes and its figure-level texts, in the    *)
(* order they were added.  An axes holds the tick locations of its two     *)
(* axes, its labels and title, its visibility, whether it draws its frame  *)
(* and ticks (axison), whether it shows an image, the rectangle it was     *)
(* placed at, its own texts, the labels of its plotted artists, and its    *)
(* legend.  A text holds its string, its alignment and its visibility.     *)
(***************************************************************************)
\* the major tick locations matplotlib's locator gives an axes whose ticks
\* nobody set: never empty
AutoTicks == <<0, 1>>

\* the axes of plt.subplots()
NewAxes ==
    [xticks |-> AutoTicks, yticks |-> AutoTicks,
     xlabel |-> <<>>, ylabel |-> <<>>, title |-> <<>>,
     visible |-> TRUE, axison |-> TRUE, image |-> FALSE, rect |-> "subplot",
     texts |-> <<>>, labels |-> <<>>, legend |-> None]

NewText(text, ha) == [text |-> text, ha |-> ha, visible |-> TRUE]

\* PlotBuddy.setup_figure: plt.subplots(), a new figure with one axes
SetupFigure == [axes |-> <<NewAxes>>, texts |-> <<>>]

\* the outcome of a call that raised nothing
Returned(figure) == [fig |-> figure, raised |-> "none", accepted |-> {}]

\* the outcome of a call that raised; accepted is the list of accepted
\* values the message holds
Raised(figure, exception, accepted) ==
    [fig |-> figure, raised |-> exception, accepted |-> accepted]

(***************************************************************************)
(* PlotBuddy.add_logo                                                      *)
(***************************************************************************)
\* the keys of add_logo's positions
LogoPositions == {"bottom-right", "bottom-left", "top-right", "top-left"}

\* fig.add_axes(rect); imshow(logo_img); axis('off'): the image sets the
\* limits and leaves the locators alone, axis('off') stops the axes from
\* drawing its frame and ticks and leaves the locators alone
LogoAxes(position) ==
    [NewAxes EXCEPT !.image = TRUE, !.axison = FALSE, !.rect = position]

\* an add_logo that adds the inset axes before it looks at the position
AddLogo_AxesFirst(figure, logo_path, position, files, bad) ==
    IF ~Truthy(logo_path) \/ ~Exists(Get(logo_path), files)
    THEN Raised(figure, "FileNotFoundError", {})
    ELSE IF Resolve(Get(logo_path)) \in bad
    THEN Raised(figure, "Exception", {})
    ELSE IF position \notin LogoPositions
    THEN Raised([figure EXCEPT !.axes = Append(@, LogoAxes(position))],
                "ValueError", LogoPositions)
    ELSE Returned([figure EXCEPT !.axes = Append(@, LogoAxes(position))])

AddLogo(figure, logo_path, position, files, bad) ==
    IF ~Truthy(logo_path) \/ ~Exists(Get(logo_path), files)
    THEN Raised(figure, "FileNotFoundError", {})
    ELSE IF Resolve(Get(logo_path)) \in bad
    THEN Raised(figure, "Exception", {})
    ELSE IF position \notin LogoPositions
    THEN Raised(figure, "ValueError", LogoPositions)
    ELSE Returned([figure EXCEPT !.axes = Append(@, LogoAxes(position))])

(***************************************************************************)
(* PlotBuddy.add_source_citation, add_footnote, add_titles                 *)
(***************************************************************************)
SourcePrefix == <<"S", "o", "u", "r", "c", "e", ":", " ">>

\* the keys of add_source_citation's positions
CitationPositions == {"bottom-left", "bottom-right"}

AddSourceCitation(figure, source, position) ==
    IF source = <<>>
    THEN Returned(figure)
    ELSE IF position \notin CitationPositions
    THEN Raised(figure, "ValueError", CitationPositions)
    ELSE Returned([figure EXCEPT !.texts =
             Append(@, NewText(SourcePrefix \o source,
                               IF position = "bottom-left"
                               THEN "left" ELSE "right"))])

AddFootnote(figure, text, position) ==
    LET ha == IF position = "bottom-left" THEN "left"
              ELSE IF position = "bottom-center" THEN "center"
              ELSE "right"
    IN  Returned([figure EXCEPT !.texts = Append(@, NewText(text, ha))])

\* ax.text for the title and for each subtitle that is given and not empty
AddTitles(ax, title, subtitle, subtitle2) ==
    LET given(s) == IF s = None \/ s = Some(<<>>) THEN <<>>
                    ELSE <<NewText(Get(s), "left")>>
    IN  [ax EXCEPT !.texts = @ \o <<NewText(title, "left")>>
                               \o given(subtitle) \o given(subtitle2)]

(***************************************************************************)
(* PlotBuddy.create_legend.  A label stands as its length, the one thing   *)
(* about it the code looks at; an entry of legend_entries is a tuple, and  *)
(* a well-formed one is <<label, color>>.  Anchors are in hundredths.      *)
(***************************************************************************)
LegendPositions == {"bottom", "right", "top"}

\* positions[position]
LegendConfig(position) ==
    IF position = "bottom" THEN [loc |-> "upper center", anchor |-> <<50, -15>>]
    ELSE IF position = "right" THEN [loc |-> "center left", anchor |-> <<102, 50>>]
    ELSE [loc |-> "lower center", anchor |-> <<50, 102>>]

RECURSIVE Sum(_)
Sum(lengths) == IF lengths = <<>> THEN 0 ELSE Head(lengths) + Sum(Tail(lengths))

Min(a, b) == IF a <= b THEN a ELSE b

\* the column count when the caller gives none: the average label length
\* is compared with 40 and 25 (avg > k is sum > k * count)
AutoNcol(labels) ==
    IF Sum(labels) > 40 * Len(labels) THEN Min(2, Len(labels))
    ELSE IF Sum(labels) > 25 * Len(labels) THEN Min(3, Len(labels))
    ELSE IF Len(labels) > 5 THEN Min(4, Len(labels))
    ELSE Len(labels)

\* the labels the legend shows: those of the entries in manual mode, those
\* of the plotted artists in automatic mode
LegendLabels(ax, legend_entries) ==
    IF legend_entries # None
    THEN [i \in 1..Len(Get(legend_entries)) |-> Get(legend_entries)[i][1]]
    ELSE ax.labels

LegendOf(labels, ncol, pos_config) ==
    [ncol   |-> IF ncol = None THEN AutoNcol(labels) ELSE Get(ncol),
     loc    |-> pos_config.loc,
     anchor |-> pos_config.anchor]

\* ax.legend(handles, labels, **legend_kwargs); return legend
Placed(ax, legend) ==
    [ax |-> [ax EXCEPT !.legend = Some(legend)], raised |-> "none",
     accepted |-> {}, value |-> Some(legend)]

\* a create_legend that refuses a position it does not know
CreateLegend_Validates(ax, legend_entries, ncol, position) ==
    IF /\ legend_entries # None
       /\ \E i \in 1..Len(Get(legend_entries)) : Len(Get(legend_entries)[i]) # 2
    THEN [ax |-> ax, raised |-> "ValueError", accepted |-> {}, value |-> None]
    ELSE IF LegendLabels(ax, legend_entries) = <<>>
    THEN [ax |-> ax, raised |-> "none", accepted |-> {}, value |-> None]
    ELSE IF position \notin LegendPositions
    THEN [ax |-> ax, raised |-> "ValueError", accepted |-> LegendPositions,
          value |-> None]
    ELSE Placed(ax, LegendOf(LegendLabels(ax, legend_entries), ncol,
                             LegendConfig(position)))

CreateLegend(ax, legend_entries, ncol, position) ==
    IF /\ legend_entries # None
       /\ \E i \in 1..Len(Get(legend_entries)) : Len(Get(legend_entries)[i]) # 2
    THEN [ax |-> ax, raised |-> "ValueError", accepted |-> {}, value |-> None]
    ELSE IF LegendLabels(ax, legend_entries) = <<>>
    THEN [ax |-> ax, raised |-> "none", accepted |-> {}, value |-> None]
    ELSE Placed(ax, LegendOf(LegendLabels(ax, legend_entries), ncol,
                             IF position \in LegendPositions
                             THEN LegendConfig(position)
                             ELSE LegendConfig("bottom")))

(***************************************************************************)
(* PlotBuddy.save and PlotBuddy._save_clean_version.  A written file is    *)
(* recorded with its path and the visibility each axes and each            *)
(* figure-level text had when savefig ran.                                 *)
(***************************************************************************)
BrandedSuffix == <<"_", "b", "r", "a", "n", "d", "e", "d">>
CleanSuffix == <<"_", "c", "l", "e", "a", "n">>
SourceNeedle == <<"s", "o", "u", "r", "c", "e", ":">>

UpperCase == <<"A", "B", "C", "D", "E", "F", "G", "H", "I", "J", "K", "L", "M",
               "N", "O", "P", "Q", "R", "S", "T", "U", "V", "W", "X", "Y", "Z">>
LowerCase == <<"a", "b", "c", "d", "e", "f", "g", "h", "i", "j", "k", "l", "m",
               "n", "o", "p", "q", "r", "s", "t", "u", "v", "w", "x", "y", "z">>

\* str.lower()
Lower(s) ==
    [i \in 1..Len(s) |->
        IF \E k \in 1..Len(UpperCase) : UpperCase[k] = s[i]
        THEN LowerCase[CHOOSE k \in 1..Len(UpperCase) : UpperCase[k] = s[i]]
        ELSE s[i]]

\* os.path.splitext of a file name: the extension starts at the last dot,
\* unless only dots come before that dot
SplitextName(name) ==
    LET dot == LastIndexOf(name, Dot)
    IN  IF dot > 0 /\ \E i \in 1..(dot - 1) : name[i] # Dot
        THEN [base |-> SubSeq(name, 1, dot - 1), ext |-> SubSeq(name, dot, Len(name))]
        ELSE [base |-> name, ext |-> <<>>]

\* f"{base_path}{suffix}{ext}" for base_path, ext = os.path.splitext(filepath)
Suffixed(filepath, suffix) ==
    Parent(filepath) \o <<SplitextName(Basename(filepath)).base \o suffix
                            \o SplitextName(Basename(filepath)).ext>>

\* get_visible() of each element
Visibility(seq) == [i \in 1..Len(seq) |-> seq[i].visible]

\* fig.savefig(filepath)
Savefig(figure, filepath) ==
    [path  |-> filepath,
     axes  |-> Visibility(figure.axes),
     texts |-> Visibility(figure.texts)]

\* "looks like a logo axis (no ticks, labels, etc.)"
LooksLikeLogo(ax) ==
    /\ Len(ax.xticks) = 0
    /\ Len(ax.yticks) = 0
    /\ ax.xlabel = <<>>
    /\ ax.ylabel = <<>>
    /\ ax.title = <<>>

LooksLikeSource(text) == Contains(Lower(text.text), SourceNeedle)

\* the elements original_states holds
HiddenAxes(figure) ==
    {i \in 1..Len(figure.axes) : LooksLikeLogo(figure.axes[i])}
HiddenTexts(figure) ==
    {i \in 1..Len(figure.texts) : LooksLikeSource(figure.texts[i])}

\* element.set_visible(state[i]) for each element i that is in elements
SetVisible(seq, elements, state) ==
    [i \in 1..Len(seq) |->
        IF i \in elements THEN [seq[i] EXCEPT !.visible = state[i]] ELSE seq[i]]

\* the figure as savefig sees it in _save_clean_version
Hidden(figure) ==
    [axes  |-> SetVisible(figure.axes, HiddenAxes(figure),
                          [i \in 1..Len(figure.axes) |-> FALSE]),
     texts |-> SetVisible(figure.texts, HiddenTexts(figure),
                          [i \in 1..Len(figure.texts) |-> FALSE])]

\* a restore that shows every element the call had looked at
Restored_ShowsAll(hidden, figure) ==
    [axes  |-> SetVisible(hidden.axes, HiddenAxes(figure),
                          [i \in 1..Len(figure.axes) |-> TRUE]),
     texts |-> SetVisible(hidden.texts, HiddenTexts(figure),
                          [i \in 1..Len(figure.texts) |-> TRUE])]

\* the figure after the visibility original_states holds is put back
Restored(hidden, figure) ==
    [axes  |-> SetVisible(hidden.axes, HiddenAxes(figure),
                          Visibility(figure.axes)),
     texts |-> SetVisible(hidden.texts, HiddenTexts(figure),
                          Visibility(figure.texts))]

SaveCleanVersion(figure, filepath) ==
    [fig  |-> Restored(Hidden(figure), figure),
     file |-> Savefig(Hidden(figure), filepath)]

\* the figure after the call, the files written in order, the paths returned
Save(figure, filepath, branded) ==
    LET branded_path == Suffixed(filepath, BrandedSuffix)
        clean_path   == Suffixed(filepath, CleanSuffix)
        clean        == SaveCleanVersion(figure, clean_path)
    IN  IF branded
        THEN [fig   |-> clean.fig,
              files |-> <<Savefig(figure, branded_path), clean.file>>,
              value |-> <<branded_path, clean_path>>]
        ELSE [fig   |-> clean.fig,
              files |-> <<clean.file>>,
              value |-> <<clean_path>>]

(***************************************************************************)
(* The style-loading specification: instances are constructed on one of    *)
(* two directories, load styles by name, and the environment writes,       *)
(* corrupts and removes the style files in between.                        *)
(***************************************************************************)
StyleNames == {<<"a">> \o StyleSuffix, <<"b">> \o StyleSuffix}
StyleFiles == {StyleFileA, StyleFileB,
               Join(Cwd, P(<<"a">> \o StyleSuffix \o MplstyleExt))}
BaseDirs == {Parent(StyleDir), StyleDir, Parent(Cwd), Cwd}

IsLogoFile(p) ==
    \/ EndsWith(Basename(p), IconLogoSuffix)
    \/ EndsWith(Basename(p), TextLogoSuffix)

EmptyFig == [axes |-> <<>>, texts |-> <<>>]

Idle == [op |-> "none"]

InitStyle ==
    /\ fs = BaseDirs
    /\ malformed = {}
    /\ rcParams = RcDefault
    /\ buddies = <<>>
    /\ scopes = <<>>
    /\ ret = Idle
    /\ probed = <<>>
    /\ lastOk = <<>>
    /\ ctorFs = <<>>
    /\ inEffect = None
    /\ fig = EmptyFig
    /\ written = <<>>

\* PlotBuddy(style_dir_path)
Construct(style_dir_path) ==
    /\ Len(buddies) < MaxBuddies
    /\ buddies' = Append(buddies, PlotBuddyInit(style_dir_path, fs))
    /\ lastOk' = Append(lastOk, None)
    /\ ctorFs' = Append(ctorFs, {p \in fs : IsLogoFile(p)})
    /\ ret' = [op |-> "init", self |-> Len(buddies) + 1, raised |-> "none"]
    /\ UNCHANGED <<fs, malformed, rcParams, scopes, probed, inEffect, fig, written>>

\* buddies[b].load_style_from_file(style_name)
Load(b, style_name) ==
    LET r    == LoadStyleFromFile(buddies[b], style_name, fs, malformed, rcParams)
        path == StylePath(buddies[b], style_name)
        file == Resolve(path)
    IN  /\ buddies' = [buddies EXCEPT ![b] = r.self]
        /\ rcParams' = r.rc
        /\ ret' = [op |-> "load", self |-> b, style_name |-> style_name,
                   raised |-> r.raised, value |-> r.value,
                   present |-> file \in fs, bad |-> file \in malformed]
        /\ lastOk' = IF r.raised = "none" /\ r.value
                     THEN [lastOk EXCEPT ![b] = Some(style_name)]
                     ELSE lastOk
        /\ inEffect' = IF r.raised = "none" /\ r.value THEN Some(path) ELSE inEffect
        /\ UNCHANGED <<fs, malformed, scopes, probed, ctorFs, fig, written>>

\* the environment writes file p, well-formed or not
WriteFile(p, wellFormed) ==
    /\ Parent(p) \in fs
    /\ fs' = fs \cup {p}
    /\ malformed' = IF wellFormed THEN malformed \ {p} ELSE malformed \cup {p}
    /\ <<fs', malformed'>> # <<fs, malformed>>
    /\ ret' = Idle
    /\ UNCHANGED <<rcParams, buddies, scopes, probed, lastOk, ctorFs, inEffect,
                   fig, written>>

\* the environment removes file p
RemoveFile(p) ==
    /\ p \in fs
    /\ fs' = fs \ {p}
    /\ malformed' = malformed \ {p}
    /\ ret' = Idle
    /\ UNCHANGED <<rcParams, buddies, scopes, probed, lastOk, ctorFs, inEffect,
                   fig, written>>

NextStyle ==
    \/ \E d \in {None, Some(StyleDir)} : Construct(d)
    \/ \E b \in 1..Len(buddies), n \in StyleNames : Load(b, n)
    \/ \E p \in StyleFiles, ok \in BOOLEAN : WriteFile(p, ok)
    \/ \E p \in StyleFiles : RemoveFile(p)

Spec == InitStyle /\ [][NextStyle]_vars


(***************************************************************************)
(* Claims about style loading, checked under Spec.                         *)
(***************************************************************************)
LoadFailed == ret'.op = "load" /\ ~(ret'.raised = "none" /\ ret'.value)

\* C1: current_style of every instance is the style name of its most recent
\* load that returned True, and unset when none has; a step in which a load
\* fails leaves current_style as it was, and no step moves current_style
\* from a name back to unset.
C1_CurrentStyleIsLastSuccess ==
    /\ [](\A b \in 1..Len(buddies) : buddies[b].current_style = lastOk[b])
    /\ [][\A b \in 1..Len(buddies) :
            /\ LoadFailed => buddies'[b].current_style = buddies[b].current_style
            /\ buddies[b].current_style # None => buddies'[b].current_style # None
         ]_vars

\* a load has just failed on an instance that keeps the name of an earlier,
\* different, successful load
C1_Witness ==
    /\ ret.op = "load"
    /\ ~ret.value
    /\ buddies[ret.self].current_style # None
    /\ buddies[ret.self].current_style # Some(ret.style_name)

\* C2 (as amended): load_style_from_file never raises and returns a
\* boolean: True exactly when the style file exists and parses; a missing
\* file and a file that exists but does not parse both return False.
C2_LoadNeverRaises ==
    ret.op = "load" =>
        /\ ret.raised = "none"
        /\ ret.value \in BOOLEAN
        /\ ret.value = (ret.present /\ ~ret.bad)

\* a load of a file that exists and does not parse has just returned
C2_Witness == ret.op = "load" /\ ret.present /\ ret.bad

\* C2 (as stated): the load raises exactly when the file is present and its
\* parsing throws.
C2_AsStated ==
    ret.op = "load" => ((ret.raised # "none") <=> (ret.present /\ ret.bad))

Agrees(rc, settings) == \A k \in DOMAIN settings : rc[k] = settings[k]

\* C10: rcParams is shared by all instances: whichever instance loaded last
\* with success, the settings of the file it loaded are the ones in effect.
C10_LastLoadIsInEffect ==
    inEffect # None => Agrees(rcParams, StyleSettings(Get(inEffect)))

\* an instance names a style whose settings another instance's load has
\* since overwritten
C10_Witness ==
    \E b \in 1..Len(buddies) :
        /\ buddies[b].current_style # None
        /\ inEffect # None
        /\ StylePath(buddies[b], Get(buddies[b].current_style)) # Get(inEffect)
        /\ ret.op = "load" /\ ret.self # b
        /\ ~Agrees(rcParams,
                   StyleSettings(StylePath(buddies[b], Get(buddies[b].current_style))))


(***************************************************************************)
(* The scoped-style specification: one instance on StyleDir hands out      *)
(* style context managers, which are entered and left (normally or by an   *)
(* error of the body) in any order, while the instance also loads styles   *)
(* and the environment changes the style files.                            *)
(***************************************************************************)
ScopeFiles == {StyleFileA, StyleFileB}

\* the style file the environment rewrites, corrupts and removes
VolatileFiles == {StyleFileA}

InitScope ==
    /\ fs = BaseDirs \cup ScopeFiles
    /\ malformed = {}
    /\ rcParams = RcDefault
    /\ buddies = <<PlotBuddyInit(Some(StyleDir), BaseDirs \cup ScopeFiles)>>
    /\ scopes = <<>>
    /\ ret = Idle
    /\ probed = <<>>
    /\ lastOk = <<None>>
    /\ ctorFs = <<{}>>
    /\ inEffect = None
    /\ fig = EmptyFig
    /\ written = <<>>

RemoveAt(seq, i) == SubSeq(seq, 1, i - 1) \o SubSeq(seq, i + 1, Len(seq))

\* buddies[b].get_style_context(style_name)
GetContext(b, style_name) ==
    LET r == GetStyleContext(buddies[b], style_name, fs, malformed, rcParams)
    IN  /\ Len(scopes) < MaxScopes
        /\ scopes' = Append(scopes, [phase |-> "new", style |-> r.style])
        /\ rcParams' = r.rc
        /\ ret' = [op |-> "get_style_context", self |-> b, raised |-> r.raised,
                   present |-> Exists(StylePath(buddies[b], style_name), fs)]
        /\ UNCHANGED <<fs, malformed, buddies, probed, lastOk, ctorFs, inEffect,
                       fig, written>>

\* `with` enters scopes[i]: __enter__
EnterScope(i) ==
    LET r == StyleContextEnter(scopes[i].style, fs, malformed, rcParams)
    IN  /\ scopes[i].phase = "new"
        /\ rcParams' = r.rc
        /\ scopes' = IF r.raised = "none"
                     THEN [scopes EXCEPT ![i] = [phase |-> "entered",
                                                 saved |-> r.saved]]
                     ELSE RemoveAt(scopes, i)
        /\ ret' = [op |-> "enter", scope |-> i, raised |-> r.raised]
        /\ UNCHANGED <<fs, malformed, buddies, probed, lastOk, ctorFs, inEffect,
                       fig, written>>

\* the body of the `with` ends, normally or by an error: __exit__
ExitScope(i, byError) ==
    /\ scopes[i].phase = "entered"
    /\ rcParams' = StyleContextExit(scopes[i].saved, rcParams)
    /\ scopes' = RemoveAt(scopes, i)
    /\ ret' = [op |-> "exit", scope |-> i,
               raised |-> IF byError THEN "body" ELSE "none",
               undone |-> rcParams # scopes[i].saved]
    /\ UNCHANGED <<fs, malformed, buddies, probed, lastOk, ctorFs, inEffect,
                   fig, written>>

NextScope ==
    \/ \E b \in 1..Len(buddies), n \in StyleNames : GetContext(b, n)
    \/ \E i \in 1..Len(scopes) : EnterScope(i)
    \/ \E i \in 1..Len(scopes), e \in BOOLEAN : ExitScope(i, e)
    \/ \E b \in 1..Len(buddies), n \in StyleNames : Load(b, n)
    \/ \E p \in VolatileFiles, ok \in BOOLEAN : WriteFile(p, ok)
    \/ \E p \in VolatileFiles : RemoveFile(p)

SpecScope == InitScope /\ [][NextScope]_vars

\* C9: obtaining the context manager changes neither rcParams nor the
\* instance and raises nothing, and for an absent style file it is the
\* 'default' scope; entering saves rcParams as it is just before entry and
\* leaves the instance alone; leaving, normally or by an error, makes
\* rcParams what it was just before entry and leaves the instance alone.
C9_ScopeRevertsOnExit ==
    [][/\ ret'.op = "get_style_context" =>
            /\ rcParams' = rcParams
            /\ buddies' = buddies
            /\ ret'.raised = "none"
            /\ ~ret'.present => scopes'[Len(scopes')].style = None
       /\ ret'.op = "enter" =>
            /\ buddies' = buddies
            /\ ret'.raised = "none" => scopes'[ret'.scope].saved = rcParams
            /\ ret'.raised # "none" => rcParams' = rcParams
       /\ ret'.op = "exit" =>
            /\ buddies' = buddies
            /\ rcParams' = scopes[ret'.scope].saved
      ]_vars

\* a scope that had changed rcParams has just been left by an error, on an
\* instance that names a loaded style
C9_Witness ==
    /\ ret.op = "exit"
    /\ ret.raised = "body"
    /\ ret.undone
    /\ buddies[1].current_style # None


(***************************************************************************)
(* The theme specification: from_theme builds an instance for a theme name *)
(* (each call a new instance, the one before it discarded), the instance   *)
(* loads styles and hands out style contexts, and the environment makes    *)
(* and removes the theme directories and the files in them.                *)
(***************************************************************************)
ThemeNames == {AcmeCorp, <<"x">>}

\* the explicit roots callers pass: none, the empty string, the user-level
\* themes directory, and a directory that holds no theme
ThemeRoots == {None, Some(EmptyPath), Some(UserRoot), Some(Parent(StyleDir))}

UserDir   == UserThemePath(AcmeCorp)
SystemDir == SystemThemePath(AcmeCorp)
LegacyDir == Resolve(LegacyThemePath(AcmeCorp))

ThemeBaseDirs ==
    {Parent(StyleDir), Parent(Cwd), Cwd, Join(Cwd, P(Themes)), BaseDir,
     Parent(UserRoot), UserRoot, SystemRoot}

\* the theme directories, and the files in them, that come and go
ThemeDirs == {UserDir, SystemDir, LegacyDir}
UserStyleFile == Join(UserDir, P(AcmeCorp \o StyleSuffix \o MplstyleExt))
UserIconLogo  == Join(UserDir, P(AcmeCorp \o IconLogoSuffix))
UserTextLogo  == Join(UserDir, P(AcmeCorp \o TextLogoSuffix))
ThemeFiles ==
    {UserStyleFile, UserIconLogo, UserTextLogo,
     Join(SystemDir, P(AcmeCorp \o StyleSuffix \o MplstyleExt))}

InitTheme ==
    /\ fs = ThemeBaseDirs
    /\ malformed = {}
    /\ rcParams = RcDefault
    /\ buddies = <<>>
    /\ scopes = <<>>
    /\ ret = Idle
    /\ probed = <<>>
    /\ lastOk = <<>>
    /\ ctorFs = <<>>
    /\ inEffect = None
    /\ fig = EmptyFig
    /\ written = <<>>

\* PlotBuddy.from_theme(theme_name, themes_dir); the instance it returns
\* takes the place of the one before it
FromThemeCall(theme_name, themes_dir) ==
    \E r \in {FromTheme(theme_name, themes_dir, fs, malformed, rcParams)} :
        /\ buddies' = <<r.self>>
        /\ rcParams' = r.rc
        /\ probed' = r.probed
        /\ ret' = [op |-> "from_theme", theme_name |-> theme_name,
                   themes_dir |-> themes_dir, raised |-> r.raised,
                   loaded |-> r.loaded]
        /\ lastOk' = <<r.self.current_style>>
        /\ ctorFs' = <<{p \in fs : IsLogoFile(p)}>>
        /\ inEffect' = IF r.loaded
                       THEN Some(StylePath(r.self, theme_name \o StyleSuffix))
                       ELSE inEffect
        /\ UNCHANGED <<fs, malformed, scopes, fig, written>>

\* buddies[b].get_style_context(style_name), the context manager not used
GetContextUnused(b, style_name) ==
    LET r == GetStyleContext(buddies[b], style_name, fs, malformed, rcParams)
    IN  /\ rcParams' = r.rc
        /\ ret' = [op |-> "get_style_context", self |-> b, raised |-> r.raised,
                   present |-> Exists(StylePath(buddies[b], style_name), fs)]
        /\ UNCHANGED <<fs, malformed, buddies, scopes, probed, lastOk, ctorFs,
                       inEffect, fig, written>>

\* the environment makes directory d
MakeDir(d) ==
    /\ d \notin fs
    /\ Parent(d) \in fs
    /\ fs' = fs \cup {d}
    /\ ret' = Idle
    /\ UNCHANGED <<malformed, rcParams, buddies, scopes, probed, lastOk, ctorFs,
                   inEffect, fig, written>>

\* the environment removes directory d and what is in it
RemoveTree(d) ==
    /\ d \in fs
    /\ fs' = {p \in fs : ~StartsWith(p, d)}
    /\ malformed' = malformed \cap fs'
    /\ ret' = Idle
    /\ UNCHANGED <<rcParams, buddies, scopes, probed, lastOk, ctorFs, inEffect,
                   fig, written>>

NextTheme ==
    \/ \E n \in ThemeNames, root \in ThemeRoots : FromThemeCall(n, root)
    \/ \E b \in 1..Len(buddies) : Load(b, AcmeCorp \o StyleSuffix)
    \/ \E b \in 1..Len(buddies) : GetContextUnused(b, AcmeCorp \o StyleSuffix)
    \/ \E d \in ThemeDirs : MakeDir(d)
    \/ \E d \in ThemeDirs : RemoveTree(d)
    \/ \E p \in ThemeFiles : WriteFile(p, TRUE)
    \/ WriteFile(UserStyleFile, FALSE)
    \/ \E p \in ThemeFiles : RemoveFile(p)

SpecTheme == InitTheme /\ [][NextTheme]_vars

(***************************************************************************)
(* The project-configuration specification: from_project_config is called  *)
(* (each call a new instance) while the environment makes and removes      *)
(* ./theme, ../theme and the user-level theme directory, and the theme CSS *)
(* and style files in the two theme folders.                               *)
(***************************************************************************)
\* "dark_theme_v2": a theme name that holds "_theme"
DarkThemeV2 == <<"d", "a", "r", "k", "_", "t", "h", "e", "m", "e", "_", "v", "2">>

LocalThemeDir  == Resolve(ThemeDir)
UpperThemeDir  == Resolve(ParentThemeDir)

CssFileOf(theme_name) == P(theme_name \o ThemeSuffix \o CssExt)
StyleFileOf(theme_name) == P(theme_name \o StyleSuffix \o MplstyleExt)

ConfigDirs == {LocalThemeDir, UpperThemeDir, UserDir}
ConfigFiles ==
    {Join(LocalThemeDir, CssFileOf(AcmeCorp)),
     Join(LocalThemeDir, CssFileOf(DarkThemeV2)),
     Join(LocalThemeDir, StyleFileOf(AcmeCorp)),
     Join(LocalThemeDir, StyleFileOf(DarkThemeV2)),
     Join(UpperThemeDir, CssFileOf(AcmeCorp)),
     Join(UpperThemeDir, StyleFileOf(AcmeCorp))}

InitConfig ==
    /\ fs = {Parent(Cwd), Cwd, BaseDir, Parent(UserRoot), UserRoot}
    /\ malformed = {}
    /\ rcParams = RcDefault
    /\ buddies = <<>>
    /\ scopes = <<>>
    /\ ret = Idle
    /\ probed = <<>>
    /\ lastOk = <<>>
    /\ ctorFs = <<>>
    /\ inEffect = None
    /\ fig = EmptyFig
    /\ written = <<>>

\* PlotBuddy.from_project_config(); css is the file its glob yields first
FromProjectConfigCall(css) ==
    \E r \in {FromProjectConfig(css, fs, malformed, rcParams)} :
        /\ buddies' = <<r.self>>
        /\ rcParams' = r.rc
        /\ ret' = [op |-> "from_project_config", css |-> css,
                   theme_name |-> r.theme_name, fellBack |-> r.fellBack,
                   raised |-> r.raised]
        /\ lastOk' = <<r.self.current_style>>
        /\ ctorFs' = <<{p \in fs : IsLogoFile(p)}>>
        /\ inEffect' = IF r.self.current_style # None
                       THEN Some(StylePath(r.self, Get(r.self.current_style)))
                       ELSE inEffect
        /\ UNCHANGED <<fs, malformed, scopes, probed, fig, written>>

\* what the glob can yield first: any of the matches, in no order
FirstCss(files) ==
    LET theme_dir == ProjectThemeDir(files)
        matches   == IF theme_dir = None THEN {}
                     ELSE CssMatches(Get(theme_dir), files)
    IN  IF matches = {} THEN {None} ELSE {Some(m) : m \in matches}

NextConfig ==
    \/ \E css \in FirstCss(fs) : FromProjectConfigCall(css)
    \/ \E d \in ConfigDirs : MakeDir(d)
    \/ \E d \in ConfigDirs : RemoveTree(d)
    \/ \E p \in ConfigFiles : WriteFile(p, TRUE)
    \/ \E p \in ConfigFiles : RemoveFile(p)

SpecConfig == InitConfig /\ [][NextConfig]_vars

\* s with a trailing suf removed
StripSuffix(s, suf) ==
    IF EndsWith(s, suf) THEN SubSeq(s, 1, Len(s) - Len(suf)) ELSE s

\* C8 (as stated): from_project_config takes ./theme when it exists and
\* ../theme otherwise; with a *_theme.css file in that folder the theme name
\* is the file's stem without its trailing "_theme" and the instance is on
\* that folder with <theme_name>_style loaded from it; with no folder or no
\* such file it is from_theme("acme_corp").
C8_ThemeNameIsStemLessSuffix ==
    ret.op = "from_project_config" =>
        LET theme_dir == IF Exists(ThemeDir, fs) THEN Some(ThemeDir)
                         ELSE IF Exists(ParentThemeDir, fs) THEN Some(ParentThemeDir)
                         ELSE None
            name  == StripSuffix(Stem(Basename(Get(ret.css))), ThemeSuffix)
            style == Resolve(Join(Resolve(Get(theme_dir)), StyleFileOf(name)))
        IN  IF theme_dir = None \/ ret.css = None
            THEN /\ ret.fellBack
                 /\ ret.theme_name = AcmeCorp
                 /\ buddies[1] = FromTheme(AcmeCorp, None, fs, malformed, rcParams).self
            ELSE /\ ~ret.fellBack
                 /\ Parent(Resolve(Get(ret.css))) = Resolve(Get(theme_dir))
                 /\ ret.theme_name = name
                 /\ buddies[1].style_dir_path = Resolve(Get(theme_dir))
                 /\ buddies[1].current_style =
                       IF style \in fs /\ style \notin malformed
                       THEN Some(name \o StyleSuffix) ELSE None

(***************************************************************************)
(* Claims about theme resolution, checked under SpecTheme.  ret is reset   *)
(* by every step of the environment, so in a state where ret.op is         *)
(* "from_theme" the file system is the one the call saw.                   *)
(***************************************************************************)
ThemeStyleName(theme_name) == theme_name \o StyleSuffix

\* the style file of the theme in the directory the returned instance is on
ThemeStyleFile ==
    Resolve(Join(buddies[1].style_dir_path,
                 P(ThemeStyleName(ret.theme_name) \o MplstyleExt)))

\* C3 (as amended): from_theme always returns an instance and never raises;
\* the instance's current_style is <theme_name>_style when the resolved
\* directory holds a <theme_name>_style file that loads, and unset when the
\* file (or the whole directory) is missing or the file fails to load.
C3_FromThemeDegrades ==
    ret.op = "from_theme" =>
        /\ ret.raised = "none"
        /\ Len(buddies) = 1
        /\ buddies[1].current_style =
              IF ThemeStyleFile \in fs /\ ThemeStyleFile \notin malformed
              THEN Some(ThemeStyleName(ret.theme_name))
              ELSE None

\* from_theme, given no root, has returned an instance with the style of
\* the theme loaded
C3_Witness ==
    /\ ret.op = "from_theme"
    /\ ret.themes_dir = None
    /\ buddies[1].current_style = Some(ThemeStyleName(AcmeCorp))

\* C3 (as stated): current_style is <theme_name>_style whenever the
\* resolved directory contains the style file, and unset when it does not.
C3_AsStated ==
    ret.op = "from_theme" =>
        /\ ret.raised = "none"
        /\ buddies[1].current_style =
              IF ThemeStyleFile \in fs
              THEN Some(ThemeStyleName(ret.theme_name))
              ELSE None

\* the three places a theme is looked for, in the order of the claim
Candidates(theme_name) ==
    <<UserThemePath(theme_name), SystemThemePath(theme_name),
      LegacyThemePath(theme_name)>>

IsPrefix(s, t) == Len(s) <= Len(t) /\ SubSeq(t, 1, Len(s)) = s

\* C4: with no explicit root, style_dir_path is the first of user-level,
\* system and legacy directory that exists (the legacy path when none
\* does), never a later one when an earlier one exists, and the existence
\* tests are made in that order; with an explicit root nothing is tested
\* and style_dir_path is <root>/<theme_name>.
C4_FirstExistingWins ==
    ret.op = "from_theme" =>
        LET dir   == buddies[1].style_dir_path
            cands == Candidates(ret.theme_name)
        IN  IF Truthy(ret.themes_dir)
            THEN /\ probed = <<>>
                 /\ dir = Join(Get(ret.themes_dir), P(ret.theme_name))
            ELSE /\ IsPrefix(probed, cands)
                 /\ \E i \in 1..3 :
                       /\ dir = cands[i]
                       /\ i < 3 => Exists(cands[i], fs)
                       /\ \A j \in 1..(i - 1) : ~Exists(cands[j], fs)
                       /\ \A j \in 1..(i - 1) : j < 3 => j \in 1..Len(probed)

\* no root given, the user-level directory missing, the system and the
\* legacy directory both there: the system directory was taken
C4_Witness ==
    /\ ret.op = "from_theme"
    /\ ret.themes_dir = None
    /\ UserDir \notin fs
    /\ SystemDir \in fs
    /\ LegacyDir \in fs
    /\ buddies[1].style_dir_path = SystemDir

IconLogoOf(self) ==
    Join(self.style_dir_path, P(Basename(self.style_dir_path) \o IconLogoSuffix))

TextLogoOf(self) ==
    Join(self.style_dir_path, P(Basename(self.style_dir_path) \o TextLogoSuffix))

\* C5: each logo path of an instance is the path of the logo file when that
\* file existed at the instance's construction and unset when it did not,
\* and a step that does not construct a new instance (a load, a
\* get_style_context, the environment making or removing files and
\* directories) changes neither logo path nor style_dir_path.
C5_PathsFixedAtConstruction ==
    /\ [](\A b \in 1..Len(buddies) :
            /\ buddies[b].icon_logo_path =
                 IF Resolve(IconLogoOf(buddies[b])) \in ctorFs[b]
                 THEN Some(IconLogoOf(buddies[b])) ELSE None
            /\ buddies[b].text_logo_path =
                 IF Resolve(TextLogoOf(buddies[b])) \in ctorFs[b]
                 THEN Some(TextLogoOf(buddies[b])) ELSE None)
    /\ [][ret'.op # "from_theme" =>
            /\ Len(buddies') = Len(buddies)
            /\ \A b \in 1..Len(buddies) :
                 /\ buddies'[b].style_dir_path = buddies[b].style_dir_path
                 /\ buddies'[b].icon_logo_path = buddies[b].icon_logo_path
                 /\ buddies'[b].text_logo_path = buddies[b].text_logo_path
         ]_vars

\* an instance built when only the text logo existed, after the icon logo
\* was added and the text logo removed
C5_Witness ==
    \E b \in 1..Len(buddies) :
        /\ buddies[b].icon_logo_path = None
        /\ Resolve(IconLogoOf(buddies[b])) \in fs
        /\ buddies[b].text_logo_path # None
        /\ Resolve(TextLogoOf(buddies[b])) \notin fs

(***************************************************************************)
(* The drawing specification: on the figure setup_figure returned, series  *)
(* are plotted on its axes, logos and source citations are placed on the   *)
(* figure and legends on its axes, and the environment writes, corrupts    *)
(* and removes the logo file in between.  The caller holds the figure and  *)
(* the axes setup_figure returned, fig.axes[1]; add_logo does not return   *)
(* the axes it adds.  written holds the files the most recent call wrote.  *)
(***************************************************************************)
MaxElements == 2

\* the axes, texts and labelled artists of a figure
RECURSIVE InAxes(_)
InAxes(axes) ==
    IF axes = <<>> THEN 0
    ELSE 1 + Len(Head(axes).texts) + Len(Head(axes).labels) + InAxes(Tail(axes))

Size(figure) == InAxes(figure.axes) + Len(figure.texts)

\* "l.p", a logo file of the working directory
LogoFile == P(<<"l", Dot, "p">>)
LogoPaths == {None, Some(EmptyPath), Some(LogoFile)}

\* the position keywords the calls are made with: "middle" is in no
\* accepted set
LogoPositionArgs == {"bottom-right", "top-left", "middle"}
CitationPositionArgs == {"bottom-left", "bottom-right", "middle"}
LegendPositionArgs == {"bottom", "right", "top", "middle"}

Sources == {<<>>, <<"x">>}

\* label lengths
LabelLen == [short |-> 3, long |-> 30, verylong |-> 50]

Repeat(x, n) == [i \in 1..n |-> x]

\* legend_entries and ncol: automatic mode, no entries, an entry that is
\* not a pair, and entries for each branch of the column count
LegendArgs ==
    {<<None, None>>, <<Some(<<>>), None>>,
     <<Some(<<<<LabelLen.short>>>>), None>>,
     <<Some(Repeat(<<LabelLen.short, "c">>, 6)), None>>,
     <<Some(Repeat(<<LabelLen.long, "c">>, 4)), None>>,
     <<Some(Repeat(<<LabelLen.verylong, "c">>, 3)), None>>,
     <<Some(Repeat(<<LabelLen.short, "c">>, 2)), Some(1)>>}

InitDraw ==
    /\ fs = {Parent(Cwd), Cwd}
    /\ malformed = {}
    /\ rcParams = RcDefault
    /\ buddies = <<PlotBuddyInit(None, fs)>>
    /\ scopes = <<>>
    /\ ret = Idle
    /\ probed = <<>>
    /\ lastOk = <<None>>
    /\ ctorFs = <<{}>>
    /\ inEffect = None
    /\ fig = SetupFigure
    /\ written = <<>>

\* what no call on a figure touches
DrawFrame ==
    UNCHANGED <<fs, malformed, rcParams, buddies, scopes, probed, lastOk,
                ctorFs, inEffect>>

\* fig, ax = buddy.setup_figure(): the new figure is the current one
SetupFigureCall ==
    /\ fig' = SetupFigure
    /\ ret' = [op |-> "setup_figure"]
    /\ written' = <<>>
    /\ DrawFrame

\* the caller plots a labelled series on ax
Plot(label) ==
    /\ fig' = [fig EXCEPT !.axes[1].labels = Append(@, label)]
    /\ Size(fig') <= MaxElements
    /\ ret' = Idle
    /\ written' = <<>>
    /\ DrawFrame

\* buddy.add_logo(fig, logo_path, position)
AddLogoCall(logo_path, position) ==
    \E r \in {AddLogo(fig, logo_path, position, fs, malformed)} :
        /\ Size(r.fig) <= MaxElements
        /\ fig' = r.fig
        /\ ret' = [op |-> "add_logo", logo_path |-> logo_path,
                   position |-> position, raised |-> r.raised,
                   accepted |-> r.accepted]
        /\ written' = <<>>
        /\ DrawFrame

\* buddy.add_source_citation(fig, source, position)
AddSourceCitationCall(source, position) ==
    \E r \in {AddSourceCitation(fig, source, position)} :
        /\ Size(r.fig) <= MaxElements
        /\ fig' = r.fig
        /\ ret' = [op |-> "add_source_citation", source |-> source,
                   position |-> position, raised |-> r.raised,
                   accepted |-> r.accepted]
        /\ written' = <<>>
        /\ DrawFrame

\* buddy.create_legend(ax, legend_entries, ncol, position)
CreateLegendCall(legend_entries, ncol, position) ==
    \E r \in {CreateLegend(fig.axes[1], legend_entries, ncol, position)} :
        /\ fig' = [fig EXCEPT !.axes[1] = r.ax]
        /\ ret' = [op |-> "create_legend", legend_entries |-> legend_entries,
                   ncol |-> ncol, position |-> position, raised |-> r.raised,
                   accepted |-> r.accepted, value |-> r.value]
        /\ written' = <<>>
        /\ DrawFrame

NextDraw ==
    \/ SetupFigureCall
    \/ \E label \in {LabelLen.short, LabelLen.verylong} : Plot(label)
    \/ \E logo_path \in LogoPaths, position \in LogoPositionArgs :
          AddLogoCall(logo_path, position)
    \/ \E source \in Sources, position \in CitationPositionArgs :
          AddSourceCitationCall(source, position)
    \/ \E args \in LegendArgs, position \in LegendPositionArgs :
          CreateLegendCall(args[1], args[2], position)
    \/ \E ok \in BOOLEAN : WriteFile(Resolve(LogoFile), ok)
    \/ RemoveFile(Resolve(LogoFile))

SpecDraw == InitDraw /\ [][NextDraw]_vars

(***************************************************************************)
(* The saving specification: the figure setup_figure returned is           *)
(* decorated (logo, source citation, footnote, titles), the caller labels  *)
(* its axes, clears ticks and hides elements, and the figure is saved.     *)
(* The logo file is there and well-formed throughout.                      *)
(***************************************************************************)
FootnoteTexts == {<<"n">>, <<"r", "e">> \o SourceNeedle}
FootnotePositionArgs == {"bottom-center", "middle"}
Titles == {<<"T">>, SourcePrefix \o <<"x">>}
Subtitles == {None, Some(<<>>), Some(<<"s">>)}

\* "c.p", ".c" and "o.d/c"
SavePaths ==
    {P(<<"c", Dot, "p">>), P(<<Dot, "c">>), <<<<"o", Dot, "d">>, <<"c">>>>}

InitSave ==
    /\ fs = {Parent(Cwd), Cwd, Resolve(LogoFile)}
    /\ malformed = {}
    /\ rcParams = RcDefault
    /\ buddies = <<PlotBuddyInit(None, fs)>>
    /\ scopes = <<>>
    /\ ret = Idle
    /\ probed = <<>>
    /\ lastOk = <<None>>
    /\ ctorFs = <<{}>>
    /\ inEffect = None
    /\ fig = SetupFigure
    /\ written = <<>>

\* buddy.add_footnote(fig, text, position)
AddFootnoteCall(text, position) ==
    \E r \in {AddFootnote(fig, text, position)} :
        /\ Size(r.fig) <= MaxElements
        /\ fig' = r.fig
        /\ ret' = [op |-> "add_footnote", text |-> text,
                   position |-> position, raised |-> r.raised]
        /\ written' = <<>>
        /\ DrawFrame

\* buddy.add_titles(ax, title, subtitle, subtitle2)
AddTitlesCall(title, subtitle, subtitle2) ==
    /\ fig' = [fig EXCEPT !.axes[1] = AddTitles(@, title, subtitle, subtitle2)]
    /\ Size(fig') <= MaxElements
    /\ ret' = [op |-> "add_titles", raised |-> "none"]
    /\ written' = <<>>
    /\ DrawFrame

\* the caller's ax.set_xlabel, ax.set_ylabel or ax.set_title
SetLabel(which) ==
    /\ fig' = [fig EXCEPT !.axes[1][which] = <<"L">>]
    /\ fig' # fig
    /\ ret' = Idle
    /\ written' = <<>>
    /\ DrawFrame

\* the caller's set_xticks([]) and set_yticks([]) on axes a of fig.axes
ClearTicks(a) ==
    /\ fig' = [fig EXCEPT !.axes[a].xticks = <<>>, !.axes[a].yticks = <<>>]
    /\ fig' # fig
    /\ ret' = Idle
    /\ written' = <<>>
    /\ DrawFrame

\* the caller's ax.set_visible(False)
HideAxes ==
    /\ fig.axes[1].visible
    /\ fig' = [fig EXCEPT !.axes[1].visible = FALSE]
    /\ ret' = Idle
    /\ written' = <<>>
    /\ DrawFrame

\* the caller's set_visible(False) on text t of fig.texts
HideText(t) ==
    /\ fig.texts[t].visible
    /\ fig' = [fig EXCEPT !.texts[t].visible = FALSE]
    /\ ret' = Idle
    /\ written' = <<>>
    /\ DrawFrame

\* buddy.save(filepath, branded), the figure being the current one
SaveCall(filepath, branded) ==
    \E r \in {Save(fig, filepath, branded)} :
        /\ fig' = r.fig
        /\ written' = r.files
        /\ ret' = [op |-> "save", filepath |-> filepath, branded |-> branded,
                   value |-> r.value]
        /\ DrawFrame

NextSave ==
    \/ SetupFigureCall
    \/ \E position \in {"bottom-right", "middle"} :
          AddLogoCall(Some(LogoFile), position)
    \/ \E position \in {"bottom-left", "middle"} :
          AddSourceCitationCall(<<"x">>, position)
    \/ \E text \in FootnoteTexts, position \in FootnotePositionArgs :
          AddFootnoteCall(text, position)
    \/ \E title \in Titles, subtitle \in Subtitles :
          AddTitlesCall(title, subtitle, None)
    \/ \E which \in {"xlabel", "ylabel", "title"} : SetLabel(which)
    \/ \E a \in 1..Len(fig.axes) : ClearTicks(a)
    \/ HideAxes
    \/ \E t \in 1..Len(fig.texts) : HideText(t)
    \/ \E filepath \in SavePaths, branded \in BOOLEAN : SaveCall(filepath, branded)

SpecSave == InitSave /\ [][NextSave]_vars

(***************************************************************************)
(* Claims about placement, checked under SpecDraw.  A call changes nothing *)
(* of the file system, so in the step of a call fs is the file system the  *)
(* call saw.                                                               *)
(***************************************************************************)
\* the logo file is there and decodes
Usable(logo_path) ==
    /\ Truthy(logo_path)
    /\ Resolve(Get(logo_path)) \in fs
    /\ Resolve(Get(logo_path)) \notin malformed

\* every entry is a pair, and there is a label to show
HasLabels(ax, legend_entries) ==
    IF legend_entries = None THEN ax.labels # <<>>
    ELSE /\ Get(legend_entries) # <<>>
         /\ \A i \in 1..Len(Get(legend_entries)) : Len(Get(legend_entries)[i]) = 2

\* C6 (as amended): on a position keyword that is not in the accepted set,
\* add_logo (its logo file there and decodable) and add_source_citation (its
\* source not empty) raise ValueError with the list of accepted values and
\* leave the figure as it was; create_legend raises nothing that lists
\* positions, and the legend it draws is placed as for "bottom".
C6_InvalidPositionRaisesExceptLegend ==
    [][/\ (/\ ret'.op = "add_logo"
           /\ ret'.position \notin LogoPositions
           /\ Usable(ret'.logo_path))
          => /\ ret'.raised = "ValueError"
             /\ ret'.accepted = LogoPositions
             /\ fig' = fig
       /\ (/\ ret'.op = "add_source_citation"
           /\ ret'.position \notin CitationPositions
           /\ ret'.source # <<>>)
          => /\ ret'.raised = "ValueError"
             /\ ret'.accepted = CitationPositions
             /\ fig' = fig
       /\ (/\ ret'.op = "create_legend"
           /\ ret'.position \notin LegendPositions)
          => /\ ret'.accepted = {}
             /\ HasLabels(fig.axes[1], ret'.legend_entries)
                => /\ ret'.raised = "none"
                   /\ ret'.value # None
                   /\ fig'.axes[1].legend = ret'.value
                   /\ Get(ret'.value).loc = "upper center"
                   /\ Get(ret'.value).anchor = <<50, -15>>
                   /\ fig' = [fig EXCEPT !.axes[1].legend = ret'.value]
      ]_vars

\* a legend asked for at "middle" and drawn below the axes
C6_Witness ==
    /\ ret.op = "create_legend"
    /\ ret.position = "middle"
    /\ ret.raised = "none"
    /\ fig.axes[1].legend # None
    /\ Get(fig.axes[1].legend).loc = "upper center"

\* the values each operation accepts
Accepted(op) ==
    IF op = "add_logo" THEN LogoPositions
    ELSE IF op = "add_source_citation" THEN CitationPositions
    ELSE LegendPositions

\* C6 (as stated): each of add_logo, add_source_citation and create_legend
\* raises ValueError with the list of accepted values on a position keyword
\* that is not in its accepted set, when nothing else is wrong with the call.
C6_AsStated ==
    (/\ ret.op \in {"add_logo", "add_source_citation", "create_legend"}
     /\ ret.position \notin Accepted(ret.op)
     /\ ret.op = "add_logo" => Usable(ret.logo_path)
     /\ ret.op = "add_source_citation" => ret.source # <<>>
     /\ ret.op = "create_legend"
          => HasLabels(fig.axes[1], ret.legend_entries))
    => /\ ret.raised = "ValueError"
       /\ ret.accepted = Accepted(ret.op)

(***************************************************************************)
(* Claims about saving, checked under SpecSave.  save puts back the        *)
(* visibility it changed, so in a state where ret.op is "save" fig is the  *)
(* figure the call saw but for the visibility the call restored, and       *)
(* written holds what savefig saw.                                         *)
(***************************************************************************)
SourceColon == <<"S", "o", "u", "r", "c", "e", ":">>

\* name.ext with suffix put between name and .ext
Named(filepath, suffix) ==
    LET file == filepath[Len(filepath)]
        dot  == LastIndexOf(file, Dot)
    IN  Parent(filepath) \o <<SubSeq(file, 1, dot - 1) \o suffix
                                \o SubSeq(file, dot, Len(file))>>

\* the path is name.ext, name not empty
IsNameExt(filepath) == LastIndexOf(filepath[Len(filepath)], Dot) > 1

\* the files are the ones the claim names, in its order
C7_FileNames ==
    (ret.op = "save" /\ IsNameExt(ret.filepath)) =>
        /\ [i \in 1..Len(written) |-> written[i].path] =
              IF ret.branded
              THEN <<Named(ret.filepath, BrandedSuffix),
                     Named(ret.filepath, CleanSuffix)>>
              ELSE <<Named(ret.filepath, CleanSuffix)>>
        /\ ret.value = [i \in 1..Len(written) |-> written[i].path]

\* no figure-level text that starts with "Source:" shows in the clean file
C7_NoFigureSourceText ==
    ret.op = "save" =>
        \A t \in 1..Len(fig.texts) :
            StartsWith(fig.texts[t].text, SourceColon)
                => ~written[Len(written)].texts[t]

\* no text of an axes that starts with "Source:" shows in the clean file
C7_NoAxesSourceText ==
    ret.op = "save" =>
        \A a \in 1..Len(fig.axes) : \A t \in 1..Len(fig.axes[a].texts) :
            (/\ StartsWith(fig.axes[a].texts[t].text, SourceColon)
             /\ fig.axes[a].texts[t].visible)
                => ~written[Len(written)].axes[a]

\* no axes add_logo made shows in the clean file
C7_NoLogoInset ==
    ret.op = "save" =>
        \A a \in 1..Len(fig.axes) :
            fig.axes[a].image => ~written[Len(written)].axes[a]

\* C7 (as stated): save of name.ext writes name_branded.ext and then
\* name_clean.ext when branded, and only name_clean.ext when not; in the
\* clean file no element whose text starts with "Source:" is visible, and
\* no logo inset is visible.
C7_CleanFileHasNoBranding ==
    /\ C7_FileNames
    /\ C7_NoFigureSourceText
    /\ C7_NoAxesSourceText
    /\ C7_NoLogoInset

\* an axes without ticks, labels and title: what a logo inset looks like
BareAxes(ax) ==
    /\ ax.xticks = <<>>
    /\ ax.yticks = <<>>
    /\ ax.xlabel = <<>>
    /\ ax.ylabel = <<>>
    /\ ax.title = <<>>

\* a text that holds "source:" in any case: what a source citation looks like
MentionsSource(text) ==
    \E i \in 1..Len(text.text) :
        /\ i + Len(SourceNeedle) - 1 <= Len(text.text)
        /\ \A k \in 1..Len(SourceNeedle) :
              text.text[i + k - 1] \in {SourceNeedle[k], SourceColon[k]}

\* C12: save (and so _save_clean_version) leaves the figure as it found it,
\* each axes and each figure-level text with the visibility it had before
\* the call, the elements that were invisible before included; and in every
\* file the call writes, an axes that does not look like a logo inset and a
\* text that does not look like a source citation has the visibility it had
\* before the call.
C12_SaveRestoresVisibility ==
    [][ret'.op = "save" =>
          /\ fig' = fig
          /\ \A a \in 1..Len(fig.axes) :
                fig'.axes[a].visible = fig.axes[a].visible
          /\ \A t \in 1..Len(fig.texts) :
                fig'.texts[t].visible = fig.texts[t].visible
          /\ \A w \in 1..Len(written') :
                /\ Len(written'[w].axes) = Len(fig.axes)
                /\ Len(written'[w].texts) = Len(fig.texts)
                /\ \A a \in 1..Len(fig.axes) :
                      ~BareAxes(fig.axes[a])
                         => written'[w].axes[a] = fig.axes[a].visible
                /\ \A t \in 1..Len(fig.texts) :
                      ~MentionsSource(fig.texts[t])
                         => written'[w].texts[t] = fig.texts[t].visible
      ]_vars

\* a branded save of a figure with a source citation the caller had
\* hidden: the citation is still hidden after the call, and the axes of the
\* chart, with its ticks, is in view in both files
C12_Witness ==
    /\ ret.op = "save"
    /\ ret.branded
    /\ \E t \in 1..Len(fig.texts) :
          /\ StartsWith(fig.texts[t].text, SourceColon)
          /\ ~fig.texts[t].visible
          /\ ~written[Len(written)].texts[t]
    /\ ~BareAxes(fig.axes[1])
    /\ fig.axes[1].visible
    /\ \A w \in 1..Len(written) : written[w].axes[1]

(***************************************************************************)
(* The lookup-and-logo specification: the instance looks up styles and     *)
(* themes (load_style_from_file, get_style_context, from_theme,            *)
(* from_project_config) and places logos on the figure, while the          *)
(* environment writes, corrupts and removes the logo file and the style    *)
(* file of the working directory.  No theme directory exists.              *)
(***************************************************************************)
\* "acme_corp_style.mplstyle" in the working directory
CwdStyleFile == Join(Cwd, StyleFileOf(AcmeCorp))

NextLogo ==
    \/ SetupFigureCall
    \/ \E logo_path \in LogoPaths, position \in LogoPositionArgs :
          AddLogoCall(logo_path, position)
    \/ \E b \in 1..Len(buddies) : Load(b, AcmeCorp \o StyleSuffix)
    \/ \E b \in 1..Len(buddies) : GetContextUnused(b, AcmeCorp \o StyleSuffix)
    \/ \E root \in {None, Some(UserRoot)} : FromThemeCall(AcmeCorp, root)
    \/ \E css \in FirstCss(fs) : FromProjectConfigCall(css)
    \/ \E p \in {Resolve(LogoFile), CwdStyleFile}, ok \in BOOLEAN : WriteFile(p, ok)
    \/ \E p \in {Resolve(LogoFile), CwdStyleFile} : RemoveFile(p)

SpecLogo == InitDraw /\ [][NextLogo]_vars

\* the calls that look up a style or a theme
Lookups == {"load", "get_style_context", "from_theme", "from_project_config"}

\* C11: add_logo with an empty logo path or a path that does not exist
\* raises FileNotFoundError; whenever add_logo raises (missing file, image
\* that does not decode, invalid position) the figure is as it was, no axes
\* added; and no lookup of a style or a theme raises, the style or theme
\* missing or not.
C11_LogoFailsLoudlyLookupsDoNot ==
    [][/\ (/\ ret'.op = "add_logo"
           /\ \/ ret'.logo_path \in {None, Some(EmptyPath)}
              \/ Resolve(Get(ret'.logo_path)) \notin fs)
          => ret'.raised = "FileNotFoundError"
       /\ (ret'.op = "add_logo" /\ ~Usable(ret'.logo_path))
          => ret'.raised \in {"FileNotFoundError", "Exception"}
       /\ (ret'.op = "add_logo" /\ ret'.position \notin LogoPositions)
          => ret'.raised # "none"
       /\ (ret'.op = "add_logo" /\ ret'.raised # "none")
          => /\ fig' = fig
             /\ Len(fig'.axes) = Len(fig.axes)
       /\ (ret'.op = "add_logo" /\ ret'.raised = "none")
          => /\ Len(fig'.axes) = Len(fig.axes) + 1
             /\ fig'.axes[Len(fig'.axes)].image
       /\ ret'.op \in Lookups => ret'.raised = "none"
      ]_vars

\* add_logo has raised on a logo file that does not decode, the style file
\* of the working directory missing, and the figure has its one axes
C11_Witness ==
    /\ ret.op = "add_logo"
    /\ ret.raised = "Exception"
    /\ Resolve(LogoFile) \in malformed
    /\ CwdStyleFile \notin fs
    /\ Len(fig.axes) = 1

=============================================================================
